---------------------------- MODULE Spec2Model ----------------------------
(***************************************************************************)
(* Draicor Bros (src/index.tsx): the game-flow state machine, the          *)
(* per-tick simulation step and the entity rules, as a state machine.      *)
(*                                                                         *)
(* Numbers.  Timers are held in thirds of a millisecond (TimeScale), so    *)
(* that the per-tick delta 1000/60 ms is the integer FrameDelta = 50 and   *)
(* every timer runs down exactly as the rational arithmetic does.          *)
(* Lengths and speeds are held in thirtieths of a pixel (PxScale), so that *)
(* GRAVITY = 0.6 and a third of the explosive block's height are integers. *)
(*                                                                         *)
(* The explosive block's height and y carry the rounding error of the      *)
(* doubles that hold them.                                                 *)
(*                                                                         *)
(* Geometry.  The players' and enemies' horizontal positions are not part  *)
(* of the state.  The outcome of every axis-aligned overlap test that      *)
(* depends on them (which enemies a player's body overlaps, which enemies  *)
(* lie in the window of a head-butt, whether the player strikes the        *)
(* explosive block from below) is an input of the tick, drawn with \E.     *)
(* An enemy's vertical position is held as alt, the height of its bottom   *)
(* edge above the surface under it, and moves as Enemy.update moves y.     *)
(*                                                                         *)
(* Specifications.  Spec is the game flow from the page load.  The others  *)
(* start within a match and follow one part of the tick each: SpecMatch    *)
(* and SpecEnemy the collisions and the enemies, SpecPlatform the mobile   *)
(* platforms, SpecSetup the level setup, SpecParticles the particles,      *)
(* SpecBomber the ice bombers under fair ticking, SpecMotion the players'  *)
(* vertical motion.                                                        *)
(***************************************************************************)
EXTENDS Integers, Sequences, FiniteSets, TLC

VARIABLES
    gameState,             \* src/index.tsx:51
    level,                 \* :44
    levelTransitionTimer,  \* :52
    playerSelectOption,    \* :53
    players,               \* :45  sequence of Player records
    enemies,               \* :46  sequence of Enemy records (the roster)
    platforms,             \* :47  sequence of Platform records
    explosiveBlock,        \* :49
    keys,                  \* :50  held-state of the Enter key
    highScore,             \* :43
    storedHighScore,       \* localStorage[HIGH_SCORE_KEY]
    particles,             \* :48  the particles' lives, as a bag: life |-> how many
    bodies,                \* :65, :69, :70  the players' y, vy and onGround, where followed
    timeouts,              \* pending setTimeout callbacks of the paused branch (:858)
    staleTimeouts          \* history: how many of them were scheduled before the latest pause

vars == <<gameState, level, levelTransitionTimer, playerSelectOption, players,
          enemies, platforms, explosiveBlock, keys, highScore, storedHighScore,
          particles, bodies, timeouts, staleTimeouts>>

-----------------------------------------------------------------------------
(* Program constants *)

GAME_WIDTH == 960
GAME_HEIGHT == 720
\* GRAVITY = 0.6 px per tick, as tenths of a pixel
GRAVITY_TENTHS == 6
FLIP_DURATION == 5000
LIVES_START == 3
EXTRA_LIFE_SCORE == 20000
LEVEL_TRANSITION_TIME == 1500
EXPLOSIVE_BLOCK_USES == 3

\* units per millisecond
TimeScale == 3
\* units per pixel
PxScale == 30
\* 1000 / 60 ms
FrameDelta == (1000 * TimeScale) \div 60
Ms(t) == t * TimeScale
Px(d) == d * PxScale
GRAVITY == (GRAVITY_TENTHS * PxScale) \div 10

\* the award of a head-butt flip and of a flipped enemy touched
HEADBUTT_POINTS == 50
KILL_POINTS == 200
\* hit-animation time of a damaged ToughEnemy, frozen time of a platform,
\* cooldown of the explosive block, cap of a flipped bomber's timer
HIT_ANIMATION_TIME == 300
FROZEN_TIME == 7000
BLOCK_COOLDOWN == 500
BOMBER_FLIP_CAP == 100

-----------------------------------------------------------------------------
(* Bounds of the model *)

\* the levels 1..MaxLevel are played through; a later level is entered and left there
MaxLevel == 1
\* a level of the late game (all variants spawn, static layout) that is played too
LateLevel == 33
\* pending resume callbacks
MaxTimeouts == 2
\* where flips are kept young, a tick is taken only while no enemy has been
\* flipped for this many ticks
MaxFlipAge == 2
\* scores are followed up to this value
MaxScore == 40400
\* the game-flow specification follows the play of matches of up to this many players
FlowPlayers == 1
\* where the particles are followed, a tick is taken only while the particles
\* in flight are of at most this many different lives
MaxBursts == 1

Min(a, b) == IF a < b THEN a ELSE b
Max(a, b) == IF a > b THEN a ELSE b
Abs(a) == IF a < 0 THEN -a ELSE a

RemoveAt(s, k) == SubSeq(s, 1, k - 1) \o SubSeq(s, k + 1, Len(s))

-----------------------------------------------------------------------------
(* Player (src/index.tsx:62-179) *)

Player(id) ==
    [id |-> id, isDead |-> FALSE, score |-> 0, lives |-> LIVES_START,
     nextExtraLifeScore |-> EXTRA_LIFE_SCORE]

\* addScore that grants the life only once the score is past the threshold
AddScoreStrict(p, points) ==
    LET s == p.score + points IN
    IF s > p.nextExtraLifeScore
    THEN [p EXCEPT !.score = s, !.lives = p.lives + 1,
                   !.nextExtraLifeScore = p.nextExtraLifeScore + EXTRA_LIFE_SCORE]
    ELSE [p EXCEPT !.score = s]

\* addScore that assigns the points instead of adding them
AddScoreAssign(p, points) ==
    IF points >= p.nextExtraLifeScore
    THEN [p EXCEPT !.score = points, !.lives = p.lives + 1,
                   !.nextExtraLifeScore = p.nextExtraLifeScore + EXTRA_LIFE_SCORE]
    ELSE [p EXCEPT !.score = points]

\* Player.addScore, the player's part (:167-171)
AddScore(p, points) ==
    LET s == p.score + points IN
    IF s >= p.nextExtraLifeScore
    THEN [p EXCEPT !.score = s, !.lives = p.lives + 1,
                   !.nextExtraLifeScore = p.nextExtraLifeScore + EXTRA_LIFE_SCORE]
    ELSE [p EXCEPT !.score = s]

\* A high score that follows the score down as well
RaiseHighScoreAlways(hs, score) == score

\* Player.addScore, the high score's part (:173-176)
RaiseHighScore(hs, score) == IF score > hs THEN score ELSE hs

\* die without its first line, the return of a dead player
DieUnguarded(p) ==
    LET l == p.lives - 1 IN
    IF l <= 0 THEN [p EXCEPT !.lives = l, !.isDead = TRUE]
    ELSE [p EXCEPT !.lives = l]

\* Player.die, the player's part (:147-163); a dead player is left alone
Die(p) ==
    IF p.isDead THEN p
    ELSE LET l == p.lives - 1 IN
         IF l <= 0 THEN [p EXCEPT !.lives = l, !.isDead = TRUE]
         ELSE [p EXCEPT !.lives = l]

\* checkGameOver with players.some in place of players.every
CheckGameOverSome(ps, gs) ==
    IF \E i \in 1..Len(ps) : ps[i].isDead THEN "gameOver" ELSE gs

\* checkGameOver (:821-826)
CheckGameOver(ps, gs) ==
    IF \A i \in 1..Len(ps) : ps[i].isDead THEN "gameOver" ELSE gs

-----------------------------------------------------------------------------
(* Enemy and its variants (src/index.tsx:181-368) *)

Kinds == {"basic", "fast", "jumping", "bomber", "tough"}

EnemyHeight(kind) == IF kind = "tough" THEN Px(40) ELSE Px(36)

\* The constructors: Enemy (:194-206) and the variants' own fields.
\* alt is the height of the bottom edge above the surface under the enemy.
Enemy(id, kind, alt) ==
    [id |-> id, kind |-> kind,
     sprite |-> kind,
     isFlipped |-> FALSE, flipTimer |-> 0,
     vy |-> 0, alt |-> alt, onGround |-> FALSE,
     hitAnimationTimer |-> 0,
     hitsLeft |-> IF kind = "tough" THEN 2 ELSE 0,
     timer |-> 0, platform |-> 0, jumpCooldown |-> 0]

JumpingEnemy(id, alt, cooldown) ==
    [Enemy(id, "jumping", alt) EXCEPT !.jumpCooldown = cooldown]

\* An IceBomber is placed on its platform (:322)
IceBomberEnemy(id, platform, timer) ==
    [Enemy(id, "bomber", 0) EXCEPT !.timer = Ms(timer), !.platform = platform]

\* Enemy.flip (:264-270)
BaseFlip(e) ==
    IF ~e.isFlipped
    THEN [e EXCEPT !.isFlipped = TRUE, !.flipTimer = Ms(FLIP_DURATION), !.vy = -Px(5)]
    ELSE e

\* IceBomberEnemy.flip (:341-343)
IceBomberFlip(e) == [e EXCEPT !.timer = Min(e.timer, Ms(BOMBER_FLIP_CAP))]

\* ToughEnemy.flip without its first line, the return of a flipped enemy
ToughFlipUnguarded(e) ==
    LET e1 == [e EXCEPT !.hitsLeft = e.hitsLeft - 1, !.vy = -Px(3)] IN
    IF e1.hitsLeft <= 0
    THEN BaseFlip(e1)
    ELSE [e1 EXCEPT !.hitAnimationTimer = Ms(HIT_ANIMATION_TIME),
                    !.sprite = "damaged"]

\* ToughEnemy.flip (:353-363)
ToughFlip(e) ==
    IF e.isFlipped THEN e
    ELSE LET e1 == [e EXCEPT !.hitsLeft = e.hitsLeft - 1, !.vy = -Px(3)] IN
         IF e1.hitsLeft <= 0
         THEN BaseFlip(e1)
         ELSE [e1 EXCEPT !.hitAnimationTimer = Ms(HIT_ANIMATION_TIME),
                         !.sprite = "damaged"]

\* e.flip(), dispatched on the variant
Flip(e) ==
    CASE e.kind = "bomber" -> IceBomberFlip(e)
      [] e.kind = "tough" -> ToughFlip(e)
      [] OTHER -> BaseFlip(e)

\* Enemy.update (:226-262); the landing band of the surface under the enemy
\* is its height + 10 px (:253)
PLATFORM_HEIGHT == 20

\* The countdown that reverts the flip only once the timer is below zero
FlipCountdownLate(e) ==
    IF e.isFlipped
    THEN LET t == e.flipTimer - FrameDelta IN
         IF t < 0
         THEN [e EXCEPT !.flipTimer = t, !.isFlipped = FALSE, !.alt = e.alt + Px(5)]
         ELSE [e EXCEPT !.flipTimer = t]
    ELSE e

FlipCountdown(e) ==
    IF e.isFlipped
    THEN LET t == e.flipTimer - FrameDelta IN
         IF t <= 0
         THEN [e EXCEPT !.flipTimer = t, !.isFlipped = FALSE, !.alt = e.alt + Px(5)]
         ELSE [e EXCEPT !.flipTimer = t]
    ELSE e

Land(e) ==
    IF e.vy >= 0 /\ e.alt <= 0 /\ e.alt >= -Px(PLATFORM_HEIGHT + 10)
    THEN [e EXCEPT !.alt = 0, !.vy = 0, !.onGround = TRUE]
    ELSE e

BaseUpdate(e) ==
    LET e1 == IF e.hitAnimationTimer > 0
              THEN [e EXCEPT !.hitAnimationTimer = e.hitAnimationTimer - FrameDelta]
              ELSE e
        e2 == FlipCountdown(e1)
        v  == e2.vy + GRAVITY
        e3 == [e2 EXCEPT !.vy = v, !.alt = e2.alt - v, !.onGround = FALSE]
    IN Land(e3)

\* JumpingEnemy.update (:302-311); jc is the draw of randomInt(100, 300)
JumpingUpdate(e, jc) ==
    LET e1 == BaseUpdate(e)
        c  == e1.jumpCooldown - 1
    IN IF e1.onGround /\ c <= 0 /\ ~e1.isFlipped
       THEN [e1 EXCEPT !.vy = -Px(8), !.onGround = FALSE, !.jumpCooldown = jc]
       ELSE [e1 EXCEPT !.jumpCooldown = c]

\* An update that leaves the bomber's timer alone
IceBomberUpdateIdle(e) == BaseUpdate(e)

\* IceBomberEnemy.update up to the call of explode (:326-328)
IceBomberUpdate(e) ==
    LET e1 == BaseUpdate(e) IN [e1 EXCEPT !.timer = e1.timer - FrameDelta]

Explodes(e) == e.kind = "bomber" /\ e.timer <= 0 /\ ~e.isFlipped

\* e.update(), dispatched on the variant, without the roster's part of explode
EnemyUpdate(e, jc) ==
    CASE e.kind = "jumping" -> JumpingUpdate(e, jc)
      [] e.kind = "bomber" -> IceBomberUpdate(e)
      [] OTHER -> BaseUpdate(e)

-----------------------------------------------------------------------------
(* Platform (src/index.tsx:371-429) and the level layouts (:536-567) *)

Platform(x, y, width, height, isFloor) ==
    [x |-> Px(x), y |-> Px(y), width |-> Px(width), height |-> Px(height),
     isFloor |-> isFloor, isFrozen |-> FALSE, frozenTimer |-> 0,
     vx |-> 0, startX |-> Px(x), range |-> 0]

\* Platform.makeMobile (:421-428); the speed is given in tenths of a pixel
MakeMobile(p, speedTenths, range) ==
    LET speed == (speedTenths * PxScale) \div 10 IN
    [p EXCEPT !.vx = speed, !.range = Px(range),
              !.startX = IF speed < 0 THEN p.x - Px(range) ELSE p.startX]

\* Platform.update (:403-414)
PlatformUpdate(p) ==
    LET t  == p.frozenTimer - FrameDelta
        p1 == IF p.isFrozen
              THEN [p EXCEPT !.frozenTimer = t, !.isFrozen = ~(t <= 0)]
              ELSE p
        x  == p1.x + p1.vx
    IN IF p1.vx # 0
       THEN [p1 EXCEPT !.x = x,
                       !.vx = IF x <= p1.startX \/ x >= p1.startX + p1.range
                              THEN -p1.vx ELSE p1.vx]
       ELSE p1

\* Platform.freeze (:416-419)
Freeze(p) == [p EXCEPT !.isFrozen = TRUE, !.frozenTimer = Ms(FROZEN_TIME)]

P(x, y, width) == Platform(x, y, width, PLATFORM_HEIGHT, FALSE)

levelLayouts ==
    << << P(0, 550, 250), P(GAME_WIDTH - 250, 550, 250), P(300, 400, 360),
          P(0, 250, 350), P(GAME_WIDTH - 350, 250, 350) >>,
       << P(0, 580, 200), P(GAME_WIDTH - 200, 580, 200), P(250, 450, 150),
          P(GAME_WIDTH - 400, 450, 150), P(0, 300, 200),
          P(GAME_WIDTH - 200, 300, 200), P(300, 180, 360) >>,
       << P(0, 550, 200), P(GAME_WIDTH - 200, 550, 200),
          MakeMobile(P(380, 400, 200), 10, 100),
          P(0, 250, 300), P(GAME_WIDTH - 300, 250, 300) >>,
       << MakeMobile(P(0, 580, 150), 12, 80),
          MakeMobile(P(GAME_WIDTH - 150, 580, 150), -12, 80),
          P(300, 420, 360),
          MakeMobile(P(0, 250, 350), 15, 150),
          MakeMobile(P(GAME_WIDTH - 350, 250, 350), -15, 150) >> >>

\* spawnPoints (:37-40)
spawnPoints == << [x |-> Px(150), y |-> Px(60)], [x |-> Px(GAME_WIDTH - 150), y |-> Px(60)] >>

-----------------------------------------------------------------------------
(* ExplosiveBlock (src/index.tsx:431-492) *)

BLOCK_HEIGHT == 50
BLOCK_Y == GAME_HEIGHT - 180

\* The block's height and y are numbers (IEEE 754 doubles) that hit()
\* changes by initialHeight / 3, which no double holds exactly.  Each is
\* held as its nominal value in 1/PxScale px (height, y) and the error of
\* the stored double against it (heightErr, yErr) in units of 2^-48 / 3 px:
\* a double in [2^p, 2^(p+1)) is a multiple of Ulp(p) = 3 * 2^(p-4) units.
\* a is always the nominal value in thirds of a pixel.
Thirds(v) == (3 * v) \div PxScale

Exponent(a) == CHOOSE p \in 4..12 : 3 * 2^p <= a /\ a < 3 * 2^(p + 1)

Ulp(p) == 3 * 2^(p - 4)

\* a * 2^48 modulo 2 * Ulp(p)
Residue(a, p) ==
    LET k == p - 3 IN
    2^k * (((a % 3) * (IF (48 - k) % 2 = 0 THEN 1 ELSE 2)) % 3)

\* The error of the double nearest (ties to the even mantissa) to the
\* number of nominal value a and error e; a difference of two doubles of
\* the same nominal value is exact
RoundErr(a, e) ==
    IF a = 0 THEN e
    ELSE LET p == Exponent(a)
             U == Ulp(p)
             t == (Residue(a, p) + e) % (2 * U)
             d == t % U
         IN IF d = 0 THEN e
            ELSE IF 2 * d < U THEN e - d
            ELSE IF 2 * d > U THEN e + U - d
            ELSE IF t = d THEN e - d
            ELSE e + U - d

ExplosiveBlock ==
    [initialHeight |-> Px(BLOCK_HEIGHT), height |-> Px(BLOCK_HEIGHT), heightErr |-> 0,
     y |-> Px(BLOCK_Y), yErr |-> 0,
     usesLeft |-> EXPLOSIVE_BLOCK_USES, cooldown |-> 0]

\* ExplosiveBlock.update (:468-470)
BlockUpdate(b) ==
    IF b.cooldown > 0 THEN [b EXCEPT !.cooldown = b.cooldown - FrameDelta] ELSE b

\* A test that leaves the cooldown out
CanHitAlways(b) == b.usesLeft > 0

CanHit(b) == b.usesLeft > 0 /\ b.cooldown <= 0

\* ExplosiveBlock.hit, the block's part (:473-475, :481-483)
BlockHit(b) ==
    IF CanHit(b)
    THEN LET flattenAmount == b.initialHeight \div EXPLOSIVE_BLOCK_USES
             flattenErr == RoundErr(Thirds(flattenAmount), 0)
             height == b.height - flattenAmount
             y == b.y + flattenAmount
         IN [b EXCEPT !.usesLeft = b.usesLeft - 1, !.cooldown = Ms(BLOCK_COOLDOWN),
                      !.height = height,
                      !.heightErr = RoundErr(Thirds(height), b.heightErr - flattenErr),
                      !.y = y,
                      !.yErr = RoundErr(Thirds(y), b.yErr + flattenErr)]
    ELSE b

\* A hit that reaches the first enemy of the roster only
FlipFirst(es) == [i \in 1..Len(es) |-> IF i = 1 THEN Flip(es[i]) ELSE es[i]]

\* ExplosiveBlock.hit, the roster's part (:476): every enemy's flip()
FlipAll(es) == [i \in 1..Len(es) |-> Flip(es[i])]

\* reset that leaves y where the hits have put it
BlockResetHeight(b) ==
    [b EXCEPT !.usesLeft = EXPLOSIVE_BLOCK_USES,
              !.height = b.initialHeight, !.heightErr = 0]

\* ExplosiveBlock.reset (:487-491)
BlockReset(b) ==
    [b EXCEPT !.usesLeft = EXPLOSIVE_BLOCK_USES,
              !.height = b.initialHeight, !.heightErr = 0,
              !.y = Px(BLOCK_Y), !.yErr = 0]

-----------------------------------------------------------------------------
(* setupLevel (src/index.tsx:589-627) and startGame (:569-587) *)

SetMin(S) == CHOOSE m \in S : \A n \in S : m <= n

\* The top edge of the first surface under a box dropped at x: the landing
\* test of Enemy.update (:252-253) along the fall
SurfaceY(plats, x, width, bottom) ==
    SetMin({plats[i].y : i \in {j \in 1..Len(plats) :
                 /\ x < plats[j].x + plats[j].width
                 /\ x + width > plats[j].x
                 /\ plats[j].y >= bottom}})

SpawnAlt(plats, sp, kind) ==
    SurfaceY(plats, spawnPoints[sp].x, EnemyHeight(kind),
             spawnPoints[sp].y + EnemyHeight(kind))
      - (spawnPoints[sp].y + EnemyHeight(kind))

\* A filter that leaves out the test of the platforms already guarded
ValidPlatformsAny(plats, es) ==
    SelectSeq([i \in 1..Len(plats) |-> i],
              LAMBDA i : ~plats[i].isFloor /\ plats[i].vx = 0)

\* validPlatforms (:612)
ValidPlatforms(plats, es) ==
    SelectSeq([i \in 1..Len(plats) |-> i],
              LAMBDA i : /\ ~plats[i].isFloor
                         /\ plats[i].vx = 0
                         /\ ~\E k \in 1..Len(es) :
                               es[k].kind = "bomber" /\ es[k].platform = i)

\* The random draws of one setupLevel: Math.random() of each enemy as a
\* percentage (cycled through draws), the spawn point, the platform picked
\* for a bomber, and the timers drawn by the constructors.
Draw(plan, i) == plan.draws[((i - 1) % Len(plan.draws)) + 1]

\* One pass of the loop body (:603-625)
SpawnEnemy(levelNum, plats, es, i, plan) ==
    LET finalLevel == Min(levelNum, 50)
        enemyType  == Draw(plan, i)
        valid      == ValidPlatforms(plats, es)
    IN  IF finalLevel >= 25 /\ enemyType < 15
        THEN Enemy(i, "tough", SpawnAlt(plats, plan.spawn, "tough"))
        ELSE IF finalLevel >= 20 /\ enemyType < 30
        THEN IF Len(valid) > 0
             THEN IceBomberEnemy(i, valid[(plan.pick % Len(valid)) + 1], plan.bomberTimer)
             ELSE Enemy(i, "basic", SpawnAlt(plats, plan.spawn, "basic"))
        ELSE IF finalLevel >= 10 /\ enemyType < 50
        THEN JumpingEnemy(i, SpawnAlt(plats, plan.spawn, "jumping"), plan.jumpCooldown)
        ELSE IF finalLevel >= 5 /\ enemyType < 75
        THEN Enemy(i, "fast", SpawnAlt(plats, plan.spawn, "fast"))
        ELSE Enemy(i, "basic", SpawnAlt(plats, plan.spawn, "basic"))

RECURSIVE SpawnLoop(_, _, _, _, _, _)
SpawnLoop(levelNum, plats, es, i, enemyCount, plan) ==
    IF i > enemyCount THEN es
    ELSE SpawnLoop(levelNum, plats,
                   Append(es, SpawnEnemy(levelNum, plats, es, i, plan)),
                   i + 1, enemyCount, plan)

LevelPlatforms(levelNum) ==
    LET layoutIndex == ((levelNum - 1) \div 4) % Len(levelLayouts) IN
    << Platform(0, GAME_HEIGHT - 40, GAME_WIDTH, 40, TRUE) >>
        \o levelLayouts[layoutIndex + 1]

EnemyCount(levelNum) == 2 + (Min(levelNum, 50) \div 2)

\* The roster sizes of the levels before levelNum, added up
RECURSIVE Cleared(_)
Cleared(levelNum) ==
    IF levelNum <= 1 THEN 0 ELSE EnemyCount(levelNum - 1) + Cleared(levelNum - 1)

\* setupLevel: the new platforms, roster and block
SetupLevel(levelNum, block, plan) ==
    LET plats == LevelPlatforms(levelNum) IN
    [platforms |-> plats,
     enemies |-> SpawnLoop(levelNum, plats, << >>, 1, EnemyCount(levelNum), plan),
     explosiveBlock |-> BlockReset(block)]

\* The draws the model takes
Plans ==
    [draws : {<<90>>, <<10, 20>>, <<40, 60>>}, spawn : {1}, pick : {0},
     bomberTimer : {3000}, jumpCooldown : {80}]

-----------------------------------------------------------------------------
(* Particle (src/index.tsx:494-534).  A particle is its life; its position *)
(* and size are drawn only.                                                *)

PARTICLE_LIFE == 100
DIE_PARTICLES == 50
EXPLODE_PARTICLES == 40
HIT_PARTICLES == 50
KILL_PARTICLES == 20

NoParticles == [l \in {} |-> 0]

Count(ps, l) == IF l \in DOMAIN ps THEN ps[l] ELSE 0

\* n times particles.push(new Particle(...))
Burst(ps, n) ==
    [l \in DOMAIN ps \cup {PARTICLE_LIFE} |->
        Count(ps, l) + (IF l = PARTICLE_LIFE THEN n ELSE 0)]

\* An update whose filter keeps the particles that have just run out
ParticlesUpdateKeep(ps) ==
    [l \in {k - 1 : k \in {j \in DOMAIN ps : j - 1 >= 0}} |-> ps[l + 1]]

\* particles.forEach(p => p.update()) and the filter of life > 0 (:648-649)
ParticlesUpdate(ps) ==
    [l \in {k - 1 : k \in {j \in DOMAIN ps : j - 1 > 0}} |-> ps[l + 1]]

-----------------------------------------------------------------------------
(* The players' vertical motion (src/index.tsx:111-164, :653-704).  A body  *)
(* is a player's y, vy and onGround, in 1/PxScale px and in exact           *)
(* arithmetic; the block's rounding error is left out of it.  The bodies    *)
(* are followed by the specification of the motion only: elsewhere the      *)
(* variable is NoBodies and the head-butts and strikes are drawn.           *)

PLAYER_HEIGHT == 40
PLAYER_WIDTH == 40
PLAYER_JUMP == -15
BLOCK_WIDTH == 50

NoBodies == << >>

\* The constructor of Player (:86, :88, :89)
Body == [y |-> Px(GAME_HEIGHT - PLAYER_HEIGHT - 50), vy |-> 0, onGround |-> FALSE]

\* A player standing on the floor
Standing == [y |-> Px(GAME_HEIGHT - 40 - PLAYER_HEIGHT), vy |-> 0, onGround |-> TRUE]

\* Player.update, the vertical part (:112, :134-136)
PlayerUpdate(p, b) ==
    IF p.isDead THEN b
    ELSE [y |-> b.y + b.vy + GRAVITY, vy |-> b.vy + GRAVITY, onGround |-> FALSE]

\* Player.jump (:140-144)
Jump(p, b) == IF b.onGround /\ ~p.isDead THEN [b EXCEPT !.vy = Px(PLAYER_JUMP)] ELSE b

\* The respawn branch of Player.die (:157-162): x, y, vx and vy are set
RespawnBody(b) == [b EXCEPT !.y = Px(GAME_HEIGHT - PLAYER_HEIGHT - 100), !.vy = 0]

\* What the respawn position overlaps horizontally (:158; :434, :436)
RESPAWN_X == GAME_WIDTH \div 2 - PLAYER_WIDTH \div 2
RespawnOver(plats) ==
    [plats |-> {k \in 1..Len(plats) :
                   /\ Px(RESPAWN_X) < plats[k].x + plats[k].width
                   /\ Px(RESPAWN_X + PLAYER_WIDTH) > plats[k].x},
     block |-> /\ RESPAWN_X < GAME_WIDTH \div 2 - BLOCK_WIDTH \div 2 + BLOCK_WIDTH
               /\ RESPAWN_X + PLAYER_WIDTH > GAME_WIDTH \div 2 - BLOCK_WIDTH \div 2]

\* Player vs the block as a platform (:657-664)
OnBlock(b, block, overBlock) ==
    IF /\ block.usesLeft > 0
       /\ overBlock
       /\ b.y + Px(PLAYER_HEIGHT) >= block.y
       /\ b.y + Px(PLAYER_HEIGHT) <= block.y + Px(10) + b.vy
       /\ b.vy >= 0
    THEN [y |-> block.y - Px(PLAYER_HEIGHT), vy |-> 0, onGround |-> TRUE]
    ELSE b

\* The two tests of the callback of platforms.forEach (:670-693) on the
\* running record r of the pass: y, vy, onGround, onAnyPlatform, and
\* whether a platform was head-butted
PlayerLand(r, p) ==
    IF /\ r.y + Px(PLAYER_HEIGHT) >= p.y
       /\ r.y + Px(PLAYER_HEIGHT) <= p.y + p.height + r.vy
       /\ r.vy >= 0
    THEN [r EXCEPT !.y = p.y - Px(PLAYER_HEIGHT), !.vy = 0, !.onGround = TRUE,
                   !.onAnyPlatform = TRUE]
    ELSE r

PlayerButt(r, p) ==
    IF r.y > p.y /\ r.y <= p.y + p.height /\ r.vy < 0
    THEN [r EXCEPT !.y = p.y + p.height, !.vy = 0, !.butt = TRUE]
    ELSE r

RECURSIVE OnPlatforms(_, _, _, _)
OnPlatforms(r, plats, k, over) ==
    IF k > Len(plats) THEN r
    ELSE IF k \in over
    THEN OnPlatforms(PlayerButt(PlayerLand(r, plats[k]), plats[k]), plats, k + 1, over)
    ELSE OnPlatforms(r, plats, k + 1, over)

\* let onAnyPlatform = player.onGround (:667)
Running(b) ==
    [y |-> b.y, vy |-> b.vy, onGround |-> b.onGround, onAnyPlatform |-> b.onGround,
     butt |-> FALSE, hitBlock |-> FALSE]

\* player.onGround = onAnyPlatform (:695) and the block hit from below
\* (:699-703), which moves the player whether or not hit() does anything
StrikeBlock(r, block, overBlock) ==
    IF overBlock /\ r.y > block.y /\ r.y <= block.y + block.height /\ r.vy < 0
    THEN [r EXCEPT !.onGround = r.onAnyPlatform, !.y = block.y + block.height,
                   !.vy = 0, !.hitBlock = TRUE]
    ELSE [r EXCEPT !.onGround = r.onAnyPlatform]

\* The pass of one player up to the enemies (:656-704); over are the
\* horizontal overlaps of the tick, drawn
Settle(b, block, plats, over) ==
    StrikeBlock(OnPlatforms(Running(OnBlock(b, block, over.block)), plats, 1, over.plats),
                block, over.block)

-----------------------------------------------------------------------------
(* update (src/index.tsx:629-650) and handleCollisions (:652-746), computed *)
(* on a record w of the variables a tick writes                             *)

World ==
    [gameState |-> gameState, level |-> level,
     levelTransitionTimer |-> levelTransitionTimer,
     players |-> players, enemies |-> enemies, platforms |-> platforms,
     explosiveBlock |-> explosiveBlock, particles |-> particles, bodies |-> bodies,
     highScore |-> highScore, storedHighScore |-> storedHighScore]

Ids(es) == {es[k].id : k \in 1..Len(es)}

\* enemies.forEach(e => e.update()) (:632).  forEach visits the indices
\* 0..len0-1 of the array as it is when each index is reached; an index
\* past the current end is not visited.  IceBomberEnemy.explode (:335-340)
\* splices the bomber out of the roster and freezes its platform.
RECURSIVE UpdateEnemies(_, _, _, _, _)
UpdateEnemies(es, plats, k, len0, jc) ==
    IF k > len0 \/ k > Len(es) THEN [enemies |-> es, platforms |-> plats]
    ELSE LET e == EnemyUpdate(es[k], jc) IN
         IF Explodes(e)
         THEN UpdateEnemies(RemoveAt(es, k),
                            [plats EXCEPT ![e.platform] = Freeze(plats[e.platform])],
                            k + 1, len0, jc)
         ELSE UpdateEnemies([es EXCEPT ![k] = e], plats, k + 1, len0, jc)

\* player.addScore(points) for player i (:166-178)
Award(w, i, points) ==
    LET p == AddScore(w.players[i], points) IN
    [w EXCEPT !.players[i] = p,
              !.highScore = RaiseHighScore(w.highScore, p.score),
              !.storedHighScore = IF p.score > w.highScore THEN p.score
                                  ELSE w.storedHighScore]

\* player.die() for player i (:146-164); respawned tells the respawn branch
Kill(w, i) ==
    LET p == w.players[i]
        q == Die(p)
        ps == [w.players EXCEPT ![i] = q]
    IN [w EXCEPT !.players = ps,
                 !.bodies = IF ~p.isDead /\ ~q.isDead /\ i <= Len(w.bodies)
                            THEN [w.bodies EXCEPT ![i] = RespawnBody(w.bodies[i])]
                            ELSE w.bodies,
                 !.particles = IF p.isDead THEN w.particles
                               ELSE Burst(w.particles, DIE_PARTICLES),
                 !.gameState = IF ~p.isDead /\ q.isDead
                               THEN CheckGameOver(ps, w.gameState)
                               ELSE w.gameState]

Respawns(p) == ~p.isDead /\ p.lives - 1 > 0

\* onThisPlatform (:686): the enemy's bottom edge is within 10 px of the
\* top of the platform it is over
OnThisPlatform(e) == Abs(e.alt) < Px(10)

\* The head-butt of a platform (:680-693): every unflipped enemy on the
\* platform and in the window (butt) is flipped and awards 50
RECURSIVE HeadButt(_, _, _, _)
HeadButt(w, i, k, butt) ==
    IF k > Len(w.enemies) THEN w
    ELSE LET e == w.enemies[k] IN
         IF ~e.isFlipped /\ OnThisPlatform(e) /\ e.id \in butt
         THEN HeadButt(Award([w EXCEPT !.enemies[k] = Flip(e)], i, HEADBUTT_POINTS),
                       i, k + 1, butt)
         ELSE HeadButt(w, i, k + 1, butt)

\* The strike of the block from below (:699-704) and ExplosiveBlock.hit (:472-485)
HitBlock(w) ==
    IF CanHit(w.explosiveBlock)
    THEN [w EXCEPT !.explosiveBlock = BlockHit(w.explosiveBlock),
                   !.enemies = FlipAll(w.enemies),
                   !.particles = Burst(w.particles, HIT_PARTICLES)]
    ELSE w

\* Player vs enemies (:707-718): forEach over the roster, which the
\* callback splices.  touch are the enemies overlapping the player where
\* it stands, atRespawn those overlapping the respawn position, which is
\* where the player is once die() has respawned it.
RECURSIVE TouchEnemies(_, _, _, _, _, _, _)
TouchEnemies(w, i, k, len0, touch, atRespawn, respawned) ==
    IF k > len0 \/ k > Len(w.enemies) THEN w
    ELSE LET enemy == w.enemies[k]
             overlaps == IF respawned THEN enemy.id \in atRespawn
                         ELSE enemy.id \in touch
         IN IF ~overlaps
            THEN TouchEnemies(w, i, k + 1, len0, touch, atRespawn, respawned)
            ELSE IF enemy.isFlipped
            THEN TouchEnemies(Award([w EXCEPT !.enemies = RemoveAt(w.enemies, k),
                                              !.particles = Burst(w.particles,
                                                                  KILL_PARTICLES)],
                                    i, KILL_POINTS),
                              i, k + 1, len0, touch, atRespawn, respawned)
            ELSE TouchEnemies(Kill(w, i), i, k + 1, len0, touch, atRespawn,
                              respawned \/ Respawns(w.players[i]))

\* The callback of players.forEach in handleCollisions for player i (:653-719).
\* A head-butt of a platform leaves vy = 0, so the block is struck from
\* below only by a player that has head-butted no platform in this tick.
PlayerPass(w, i, act, atRespawn) ==
    IF w.players[i].isDead THEN w
    ELSE LET w1 == IF act.butt THEN HeadButt(w, i, 1, act.window) ELSE w
             w2 == IF act.hitBlock /\ ~act.butt THEN HitBlock(w1) ELSE w1
         IN TouchEnemies(w2, i, 1, Len(w2.enemies), act.touch, atRespawn, FALSE)

\* The same callback where the bodies are followed: the head-butt and the
\* strike of the block are what the body's motion makes them (r)
Collide(w, i, act, atRespawn, r) ==
    PlayerPass([w EXCEPT !.bodies[i] = [y |-> r.y, vy |-> r.vy, onGround |-> r.onGround]],
               i, [act EXCEPT !.butt = r.butt, !.hitBlock = r.hitBlock], atRespawn)

BodyPass(w, i, in) ==
    IF w.players[i].isDead THEN w
    ELSE Collide(w, i, in.acts[i], in.atRespawn,
                 Settle(w.bodies[i], w.explosiveBlock, w.platforms, in.over[i]))

RECURSIVE HandleCollisions(_, _, _)
HandleCollisions(w, i, in) ==
    IF i > Len(w.players) THEN w
    ELSE HandleCollisions(IF w.bodies = NoBodies
                          THEN PlayerPass(w, i, in.acts[i], in.atRespawn)
                          ELSE BodyPass(w, i, in),
                          i + 1, in)

\* players.forEach(p => p.update()) (:631)
UpdatePlayers(w) ==
    [w EXCEPT !.bodies = [i \in 1..Len(w.bodies) |-> PlayerUpdate(w.players[i], w.bodies[i])]]

\* The update() calls of the entities (:632-634)
UpdatePlatforms(w, u) ==
    [w EXCEPT !.enemies = u.enemies,
              !.particles = IF Len(u.enemies) = Len(w.enemies) THEN w.particles
                            ELSE Burst(w.particles,
                                       EXPLODE_PARTICLES * (Len(w.enemies) - Len(u.enemies))),
              !.platforms = [k \in 1..Len(u.platforms) |-> PlatformUpdate(u.platforms[k])],
              !.explosiveBlock = BlockUpdate(w.explosiveBlock)]

UpdateEntities(w, jc) ==
    UpdatePlatforms(w, UpdateEnemies(w.enemies, w.platforms, 1, Len(w.enemies), jc))

\* update() in 'playing' (:630-640)
LevelCleared(w) ==
    IF Len(w.enemies) = 0 /\ \E k \in 1..Len(w.players) : ~w.players[k].isDead
    THEN [w EXCEPT !.level = w.level + 1, !.gameState = "levelTransition",
                   !.levelTransitionTimer = Ms(LEVEL_TRANSITION_TIME)]
    ELSE w

UpdatePlaying(w, in) ==
    LevelCleared(HandleCollisions(UpdateEntities(UpdatePlayers(w), in.jumpCooldown), 1, in))

\* update() in 'levelTransition' (:641-647)
UpdateTransition(w, plan) ==
    LET t == w.levelTransitionTimer - FrameDelta IN
    IF t <= 0
    THEN LET s == SetupLevel(w.level, w.explosiveBlock, plan) IN
         [w EXCEPT !.levelTransitionTimer = t, !.platforms = s.platforms,
                   !.enemies = s.enemies, !.explosiveBlock = s.explosiveBlock,
                   !.gameState = "playing"]
    ELSE [w EXCEPT !.levelTransitionTimer = t]

-----------------------------------------------------------------------------
(* The inputs of a tick in 'playing': the outcomes of the overlap tests *)

NoAct == [butt |-> FALSE, window |-> {}, hitBlock |-> FALSE, touch |-> {}]

\* The enemies a head-butt can reach (:686, :688)
Buttable(es) ==
    {es[k].id : k \in {j \in 1..Len(es) : ~es[j].isFlipped /\ OnThisPlatform(es[j])}}

\* What one player can meet in a tick: it head-butts a platform under the
\* enemies of a window, or strikes the block, or neither; and its body
\* overlaps a set of enemies.
Acts(p, es) ==
    IF p.isDead THEN {NoAct}
    ELSE {[butt |-> FALSE, window |-> {}, hitBlock |-> h, touch |-> t] :
             h \in BOOLEAN, t \in SUBSET Ids(es)}
         \cup {[butt |-> TRUE, window |-> b, hitBlock |-> FALSE, touch |-> t] :
                 b \in (SUBSET Buttable(es)) \ {{}}, t \in SUBSET Ids(es)}

\* The smaller choice of the game-flow specification: one thing at a time
FlowActs(p, es) ==
    IF p.isDead THEN {NoAct}
    ELSE {NoAct, [NoAct EXCEPT !.hitBlock = TRUE], [NoAct EXCEPT !.touch = Ids(es)]}
         \cup {[NoAct EXCEPT !.touch = {id}] : id \in Ids(es)}
         \cup {[NoAct EXCEPT !.butt = TRUE, !.window = {id}] : id \in Buttable(es)}

\* The choice of the specification of the particles: what sends particles up
ParticleActs(p, es) ==
    IF p.isDead THEN {NoAct}
    ELSE {NoAct, [NoAct EXCEPT !.hitBlock = TRUE], [NoAct EXCEPT !.touch = Ids(es)]}

\* The choice of the specification of the motion: the enemies in the
\* window of a head-butt, should the motion make one, and those touched
MotionActs(p, es) ==
    IF p.isDead THEN {NoAct}
    ELSE {[NoAct EXCEPT !.window = b, !.touch = t] :
             b \in SUBSET Buttable(es), t \in SUBSET Ids(es)}

\* mode "idle": nothing overlaps anything in the tick
ActsFor(mode, p, es) ==
    CASE mode = "flow" -> FlowActs(p, es)
      [] mode = "particles" -> ParticleActs(p, es)
      [] mode = "motion" -> MotionActs(p, es)
      [] mode = "idle" -> {NoAct}
      [] OTHER -> Acts(p, es)

ActVectors(mode, ps, es) ==
    IF Len(ps) = 1 THEN {<<a>> : a \in ActsFor(mode, ps[1], es)}
    ELSE {<<a, b>> : a \in ActsFor(mode, ps[1], es), b \in ActsFor(mode, ps[2], es)}

\* The enemies at the respawn position matter only to a player that die() respawns
RespawnSets(mode, ps, es, acts) ==
    IF \E i \in 1..Len(ps) : Respawns(ps[i]) /\ acts[i].touch # {}
    THEN (IF mode = "flow" THEN {{}, Ids(es)} ELSE SUBSET Ids(es))
    ELSE {{}}

\* randomInt(100, 300) of a jump (:308)
JumpResets(es) ==
    IF \E k \in 1..Len(es) : es[k].kind = "jumping" THEN {100, 300} ELSE {100}

Inputs(mode, ps, es) ==
    UNION {{[acts |-> a, atRespawn |-> r, jumpCooldown |-> jc] :
               r \in RespawnSets(mode, ps, es, a), jc \in JumpResets(es)} :
           a \in ActVectors(mode, ps, es)}

NoInput == [acts |-> <<NoAct, NoAct>>, atRespawn |-> {}, jumpCooldown |-> 100]

\* What a player's body overlaps horizontally in a tick: the floor, at most
\* one platform above it, and the block or not
Overs(plats) ==
    {[plats |-> {1} \cup o, block |-> ob] :
        o \in {{}} \cup {{k} : k \in 2..Len(plats)}, ob \in BOOLEAN}

OverVectors(ps, plats) ==
    IF Len(ps) = 1 THEN {<<o>> : o \in Overs(plats)}
    ELSE {<<o, q>> : o \in Overs(plats), q \in Overs(plats)}

\* The inputs of a tick that follows the bodies
MotionInputs(ps, es, plats) ==
    {[acts |-> in.acts, atRespawn |-> in.atRespawn, jumpCooldown |-> in.jumpCooldown,
      over |-> ov] : in \in Inputs("motion", ps, es), ov \in OverVectors(ps, plats)}

-----------------------------------------------------------------------------
(* The state machine *)

\* parseInt(localStorage.getItem(HIGH_SCORE_KEY) || '0') (:43): nothing
\* stored yet, or a stored high score beyond the scores the model follows
StoredHighScore == 100000

Init ==
    /\ gameState = "playerSelect"
    /\ level = 1
    /\ levelTransitionTimer = 0
    /\ playerSelectOption = 1
    /\ players = << >>
    /\ enemies = << >>
    /\ platforms = << >>
    /\ explosiveBlock = ExplosiveBlock
    /\ keys = [enter |-> FALSE]
    /\ highScore \in {0, StoredHighScore}
    /\ storedHighScore = highScore
    /\ particles = NoParticles
    /\ bodies = NoBodies
    /\ timeouts = 0
    /\ staleTimeouts = 0

Write(w) ==
    /\ gameState' = w.gameState
    /\ level' = w.level
    /\ levelTransitionTimer' = w.levelTransitionTimer
    /\ players' = w.players
    /\ enemies' = w.enemies
    /\ platforms' = w.platforms
    /\ explosiveBlock' = w.explosiveBlock
    /\ highScore' = w.highScore
    /\ storedHighScore' = w.storedHighScore

\* startGame (:569-587)
StartGame(numPlayers, plan) ==
    LET s == SetupLevel(1, ExplosiveBlock, plan) IN
    /\ level' = 1
    /\ players' = IF numPlayers = 2 THEN <<Player(1), Player(2)>> ELSE <<Player(1)>>
    /\ explosiveBlock' = s.explosiveBlock
    /\ platforms' = s.platforms
    /\ enemies' = s.enemies
    /\ gameState' = "playing"

\* What a key press does to the bodies: the jump of the player whose jump
\* key it is (:851-852), the new players of startGame (:571-577)
KeyBodies(key) ==
    CASE gameState = "playing" /\ bodies # NoBodies ->
              [i \in 1..Len(bodies) |->
                  IF (players[i].id = 1 /\ key \in {"w", " "})
                     \/ (players[i].id = 2 /\ key = "arrowup")
                  THEN Jump(players[i], bodies[i]) ELSE bodies[i]]
      [] gameState = "playerSelect" /\ key = "enter" /\ bodies # NoBodies ->
              [i \in 1..playerSelectOption |-> Body]
      [] OTHER -> bodies

Keys == {"enter", "arrowup", "arrowdown"}

\* The keydown listener (:847-873)
KeyDown(key) ==
    /\ keys' = IF key = "enter" THEN [keys EXCEPT !.enter = TRUE] ELSE keys
    /\ bodies' = KeyBodies(key)
    /\ UNCHANGED particles
    /\ CASE gameState = "playing" ->
              /\ gameState' = IF key = "enter" THEN "paused" ELSE gameState
              /\ staleTimeouts' = IF key = "enter" THEN timeouts ELSE staleTimeouts
              /\ UNCHANGED <<level, levelTransitionTimer, playerSelectOption, players,
                             enemies, platforms, explosiveBlock, highScore,
                             storedHighScore, timeouts>>
         [] gameState = "paused" ->
              /\ key = "enter" => timeouts < MaxTimeouts
              /\ timeouts' = IF key = "enter" THEN timeouts + 1 ELSE timeouts
              /\ UNCHANGED <<gameState, level, levelTransitionTimer, playerSelectOption,
                             players, enemies, platforms, explosiveBlock, highScore,
                             storedHighScore, staleTimeouts>>
         [] gameState = "playerSelect" ->
              /\ playerSelectOption' = CASE key = "arrowdown" -> 2
                                         [] key = "arrowup" -> 1
                                         [] OTHER -> playerSelectOption
              /\ IF key = "enter"
                 THEN \E plan \in Plans : StartGame(playerSelectOption, plan)
                 ELSE UNCHANGED <<gameState, level, players, enemies, platforms,
                                  explosiveBlock>>
              /\ UNCHANGED <<levelTransitionTimer, highScore, storedHighScore,
                             timeouts, staleTimeouts>>
         [] gameState = "gameOver" ->
              /\ gameState' = IF key = "enter" THEN "playerSelect" ELSE gameState
              /\ UNCHANGED <<level, levelTransitionTimer, playerSelectOption, players,
                             enemies, platforms, explosiveBlock, highScore,
                             storedHighScore, timeouts, staleTimeouts>>
         [] OTHER ->
              UNCHANGED <<gameState, level, levelTransitionTimer, playerSelectOption,
                          players, enemies, platforms, explosiveBlock, highScore,
                          storedHighScore, timeouts, staleTimeouts>>

\* The keyup listener (:875-877)
KeyUp(key) ==
    /\ keys' = IF key = "enter" THEN [keys EXCEPT !.enter = FALSE] ELSE keys
    /\ UNCHANGED <<particles, bodies>>
    /\ UNCHANGED <<gameState, level, levelTransitionTimer, playerSelectOption, players,
                   enemies, platforms, explosiveBlock, highScore, storedHighScore,
                   timeouts, staleTimeouts>>

\* The callback of setTimeout(..., 100) (:858-860); callbacks of equal
\* delay run in the order they were scheduled
ResumeCallback ==
    /\ timeouts > 0
    /\ timeouts' = timeouts - 1
    /\ staleTimeouts' = Max(0, staleTimeouts - 1)
    /\ gameState' = IF keys.enter THEN "playing" ELSE gameState
    /\ UNCHANGED <<level, levelTransitionTimer, playerSelectOption, players, enemies,
                   platforms, explosiveBlock, keys, highScore, storedHighScore,
                   particles, bodies>>

\* update() (:629-650)
UpdateGame(w, in, plan) ==
    CASE w.gameState = "playing" -> UpdatePlaying(w, in)
      [] w.gameState = "levelTransition" -> UpdateTransition(w, plan)
      [] OTHER -> w

UpdateParticles(w) == [w EXCEPT !.particles = ParticlesUpdate(w.particles)]

Update(w, in, plan) == UpdateParticles(UpdateGame(w, in, plan))

\* The first levels of the two layouts with mobile platforms (:553-566)
MobileLevels == {9, 13}

\* The levels whose play the model follows, and the scores it follows
PlayedLevel(l) == l <= MaxLevel \/ l = LateLevel \/ l \in MobileLevels
FollowedScores(w) == \A i \in 1..Len(w.players) : w.players[i].score <= MaxScore

\* The tick is followed while the scores are, and writes the world back.
\* The particles are followed under the mode "particles" only: they have
\* no effect on the rest of the state, and the other specifications leave
\* them out.  The bodies are written back wherever they are followed.
Follow(w, mode) ==
    /\ FollowedScores(w)
    /\ Write(w)
    /\ bodies' = w.bodies
    /\ IF mode = "particles"
       THEN /\ Cardinality(DOMAIN w.particles) <= MaxBursts
            /\ particles' = w.particles
       ELSE UNCHANGED particles

\* One frame of gameLoop (:840-844): update(), with the tick's inputs drawn
\* from the choice named by mode; draw() changes nothing
Tick(mode) ==
    /\ gameState = "playing" => PlayedLevel(level)
    /\ LET u == UpdateEnemies(enemies, platforms, 1, Len(enemies), 100) IN
       \E in \in (IF gameState # "playing" THEN {NoInput}
                  ELSE IF mode = "motion"
                  THEN MotionInputs(players, u.enemies, platforms)
                  ELSE Inputs(mode, players, u.enemies)) :
       \E plan \in (IF gameState = "levelTransition"
                       /\ levelTransitionTimer - FrameDelta <= 0
                    THEN Plans ELSE {CHOOSE q \in Plans : TRUE}) :
          Follow(Update(World, in, plan), mode)
    /\ UNCHANGED <<playerSelectOption, keys, timeouts, staleTimeouts>>

\* No enemy has been flipped for MaxFlipAge ticks or longer
FlipsAreYoung ==
    \A k \in 1..Len(enemies) :
        enemies[k].isFlipped =>
            enemies[k].flipTimer > Ms(FLIP_DURATION) - MaxFlipAge * FrameDelta

FlowTick ==
    /\ gameState = "playing" => FlipsAreYoung /\ Len(players) <= FlowPlayers
    /\ Tick("flow")

Next ==
    \/ FlowTick
    \/ \E key \in Keys : KeyDown(key)
    \/ \E key \in Keys : KeyUp(key)
    \/ ResumeCallback

\* The game from the page's load
Spec == Init /\ [][Next]_vars

-----------------------------------------------------------------------------
(* A match under way: level 1 with its roster landed, one or two players  *)
(* short of lives and close to the first extra life.  Every overlap       *)
(* outcome is drawn; flips are kept young.                                *)

Grounded(e) == [e EXCEPT !.alt = 0, !.vy = 0, !.onGround = TRUE]

PlayerAt(id, lives, score) == [Player(id) EXCEPT !.lives = lives, !.score = score]

MatchPlayers ==
    {<<PlayerAt(1, l, s)>> : l \in {1, 2},
                             s \in {EXTRA_LIFE_SCORE - 200, EXTRA_LIFE_SCORE - 50}}
    \cup {<<PlayerAt(1, l, EXTRA_LIFE_SCORE - 50), PlayerAt(2, 1, EXTRA_LIFE_SCORE - 200)>> :
             l \in {1, 2}}

MaxOfScores(ps) == IF Len(ps) = 1 THEN ps[1].score ELSE Max(ps[1].score, ps[2].score)

\* The block after one hit, its cooldown over
UsedBlock == [BlockHit(ExplosiveBlock) EXCEPT !.cooldown = 0]

\* A player of the late game: the first extra life behind it
LatePlayer(lives, score) ==
    [PlayerAt(1, lives, score) EXCEPT !.nextExtraLifeScore = 2 * EXTRA_LIFE_SCORE]

\* What is left of the roster of LateLevel, landed
LateMatchRosters ==
    {<<Grounded(JumpingEnemy(1, 0, 80))>>,
     <<Grounded(Enemy(1, "fast", 0)), Grounded(Enemy(2, "tough", 0))>>,
     <<Grounded(IceBomberEnemy(1, 2, 3000))>>}

InitMatch ==
    /\ gameState = "playing"
    /\ levelTransitionTimer = 0
    /\ \/ /\ level = 1
          /\ players \in MatchPlayers
          /\ \E plan \in Plans :
                LET s == SetupLevel(1, ExplosiveBlock, plan) IN
                /\ enemies = [k \in 1..Len(s.enemies) |-> Grounded(s.enemies[k])]
                /\ platforms = s.platforms
                /\ explosiveBlock = s.explosiveBlock
       \/ /\ level = LateLevel
          /\ players = <<LatePlayer(1, 2 * EXTRA_LIFE_SCORE - 200)>>
          /\ enemies \in LateMatchRosters
          /\ platforms = LevelPlatforms(LateLevel)
          /\ explosiveBlock = UsedBlock
       \/ /\ level = LateLevel
          /\ players = <<LatePlayer(2, 2 * EXTRA_LIFE_SCORE - 200)>>
          /\ enemies = <<Grounded(Enemy(1, "fast", 0)), Grounded(JumpingEnemy(2, 0, 3))>>
          /\ platforms = LevelPlatforms(LateLevel)
          /\ explosiveBlock = UsedBlock
    /\ playerSelectOption = Len(players)
    /\ keys = [enter |-> FALSE]
    /\ highScore = MaxOfScores(players)
    /\ storedHighScore = highScore
    /\ particles = NoParticles
    /\ bodies = NoBodies
    /\ timeouts = 0
    /\ staleTimeouts = 0

MatchTick ==
    /\ gameState = "playing" => FlipsAreYoung
    /\ Tick("full")

NextMatch == MatchTick

SpecMatch == InitMatch /\ [][NextMatch]_vars

-----------------------------------------------------------------------------
(* The late game: one enemy of each variant left in the roster of         *)
(* LateLevel, landed, and one player.  Every overlap outcome is drawn and *)
(* the timers run their whole length.                                     *)

\* A ToughEnemy hit once, its hit animation over
DamagedTough ==
    Grounded([ToughFlip(Enemy(1, "tough", 0)) EXCEPT !.hitAnimationTimer = 0])

LateRosters ==
    {<<Grounded(Enemy(1, "basic", 0))>>, <<Grounded(Enemy(1, "tough", 0))>>,
     <<DamagedTough>>, <<Grounded(IceBomberEnemy(1, 2, 3000))>>}

InitEnemy ==
    /\ gameState = "playing"
    /\ level = LateLevel
    /\ levelTransitionTimer = 0
    /\ players = <<[LatePlayer(1, 2 * EXTRA_LIFE_SCORE + 350) EXCEPT
                        !.nextExtraLifeScore = 3 * EXTRA_LIFE_SCORE]>>
    /\ playerSelectOption = 1
    /\ enemies \in LateRosters
    /\ platforms = LevelPlatforms(LateLevel)
    /\ explosiveBlock = UsedBlock
    /\ keys = [enter |-> FALSE]
    /\ highScore = MaxOfScores(players)
    /\ storedHighScore = highScore
    /\ particles = NoParticles
    /\ bodies = NoBodies
    /\ timeouts = 0
    /\ staleTimeouts = 0

EnemyTick == Tick("full")

NextEnemy == EnemyTick

SpecEnemy == InitEnemy /\ [][NextEnemy]_vars

-----------------------------------------------------------------------------
(* The bombers: two IceBombers left in the roster of LateLevel, with 200  *)
(* and 400 ms of their timers left, and one player.  The game loop runs   *)
(* for ever (requestAnimationFrame, :843): the tick is weakly fair.  A    *)
(* tick of play that the model follows changes the state, so that         *)
(* WF_vars(BomberTick) is stated with its ENABLED written out.            *)

InitBomber ==
    /\ gameState = "playing"
    /\ level = LateLevel
    /\ levelTransitionTimer = 0
    /\ players = <<[LatePlayer(2, 2 * EXTRA_LIFE_SCORE + 350) EXCEPT
                        !.nextExtraLifeScore = 3 * EXTRA_LIFE_SCORE]>>
    /\ playerSelectOption = 1
    /\ enemies = <<Grounded(IceBomberEnemy(1, 2, 200)),
                   Grounded(IceBomberEnemy(2, 4, 400))>>
    /\ platforms = LevelPlatforms(LateLevel)
    /\ explosiveBlock = UsedBlock
    /\ keys = [enter |-> FALSE]
    /\ highScore = MaxOfScores(players)
    /\ storedHighScore = highScore
    /\ particles = NoParticles
    /\ bodies = NoBodies
    /\ timeouts = 0
    /\ staleTimeouts = 0

BomberTick == Tick("full")

NextBomber == BomberTick

TickFairness ==
    \/ []<>(~(gameState = "playing" /\ PlayedLevel(level)))
    \/ []<><<BomberTick>>_vars

SpecBomber == InitBomber /\ [][NextBomber]_vars /\ TickFairness

-----------------------------------------------------------------------------
(* The particles: the game from the page's load, as in Spec, with the     *)
(* particles followed.                                                    *)

InitParticles == Init /\ highScore = StoredHighScore

ParticlesTick ==
    /\ gameState = "playing" => FlipsAreYoung /\ Len(players) <= FlowPlayers
    /\ Tick("particles")

NextParticles ==
    \/ ParticlesTick
    \/ KeyDown("enter")
    \/ KeyUp("enter")
    \/ ResumeCallback

SpecParticles == InitParticles /\ [][NextParticles]_vars

-----------------------------------------------------------------------------
(* setupLevel: the last tick of the transition into each level up to     *)
(* MaxSetupLevel, under every draw of SetupPlans.                         *)

MaxSetupLevel == 52

\* Math.random() of the enemies as percentages, one of each band of :609-624
Percentages == {10, 20, 40, 60, 90}

SetupPlans ==
    [draws : {<<a>> : a \in Percentages}
               \cup {<<a, b>> : a \in Percentages, b \in Percentages},
     spawn : {1, 2}, pick : {0, 1, 2}, bomberTimer : {3000}, jumpCooldown : {80}]

\* The score of a player that has cleared the levels before levelNum alone
\* without losing a life
ClearedScore(levelNum) == KILL_POINTS * Cleared(levelNum)

InitSetup ==
    /\ gameState = "levelTransition"
    /\ level \in 2..MaxSetupLevel
    /\ levelTransitionTimer = FrameDelta
    /\ players = <<[Player(1) EXCEPT
                        !.score = ClearedScore(level),
                        !.lives = LIVES_START + (ClearedScore(level) \div EXTRA_LIFE_SCORE),
                        !.nextExtraLifeScore =
                            EXTRA_LIFE_SCORE * ((ClearedScore(level) \div EXTRA_LIFE_SCORE) + 1)]>>
    /\ playerSelectOption = 1
    /\ enemies = << >>
    /\ platforms = LevelPlatforms(level - 1)
    /\ explosiveBlock \in {ExplosiveBlock, UsedBlock}
    /\ keys = [enter |-> FALSE]
    /\ highScore = MaxOfScores(players)
    /\ storedHighScore = highScore
    /\ particles = NoParticles
    /\ bodies = NoBodies
    /\ timeouts = 0
    /\ staleTimeouts = 0

\* The tick that ends the transition (:641-647), whatever the score
SetupTick ==
    /\ gameState = "levelTransition"
    /\ \E plan \in SetupPlans : Write(Update(World, NoInput, plan))
    /\ UNCHANGED <<playerSelectOption, keys, particles, bodies, timeouts, staleTimeouts>>

NextSetup == SetupTick

SpecSetup == InitSetup /\ [][NextSetup]_vars

-----------------------------------------------------------------------------
(* The mobile platforms: a level of a layout with mobile platforms, one   *)
(* enemy left, landed, and nothing overlapping anything, so that only the *)
(* platforms move.                                                        *)

InitPlatform ==
    /\ gameState = "playing"
    /\ level \in MobileLevels
    /\ levelTransitionTimer = 0
    /\ players = <<PlayerAt(1, LIVES_START,
                            ClearedScore(level) + KILL_POINTS * (EnemyCount(level) - 1))>>
    /\ playerSelectOption = 1
    /\ enemies = <<Grounded(Enemy(1, "basic", 0))>>
    /\ platforms = LevelPlatforms(level)
    /\ explosiveBlock = ExplosiveBlock
    /\ keys = [enter |-> FALSE]
    /\ highScore = MaxOfScores(players)
    /\ storedHighScore = highScore
    /\ particles = NoParticles
    /\ bodies = NoBodies
    /\ timeouts = 0
    /\ staleTimeouts = 0

PlatformTick == Tick("idle")

NextPlatform == PlatformTick

SpecPlatform == InitPlatform /\ [][NextPlatform]_vars


-----------------------------------------------------------------------------
(* The game flow (Spec) *)

FlowEdges ==
    {<<"playerSelect", "playing">>, <<"playing", "levelTransition">>,
     <<"playing", "gameOver">>, <<"playing", "paused">>, <<"paused", "playing">>,
     <<"levelTransition", "playing">>, <<"gameOver", "playerSelect">>}

\* C1: gameState changes only along the edges playerSelect->playing,
\* playing->levelTransition, playing->gameOver, playing->paused,
\* paused->playing, levelTransition->playing and gameOver->playerSelect.
C1_OnlyFlowEdges ==
    [][gameState' # gameState => <<gameState, gameState'>> \in FlowEdges]_vars

\* A step of gameLoop, told from the listeners' and the callback's steps by
\* what it leaves alone: a keydown of Enter in 'playing' pauses, a keyup of
\* Enter changes keys, the callback takes a timeout away.
TickStep == gameState' # "paused" /\ UNCHANGED <<keys, timeouts>>

AllDead(ps) == \A i \in 1..Len(ps) : ps[i].isDead

\* C2: a tick that starts in 'playing' ends in 'levelTransition', with level
\* one higher and the timer at LEVEL_TRANSITION_TIME, exactly when the roster
\* is empty and some player is not dead after the collision pass; when all
\* players are dead at its end, level is unchanged and the state is 'gameOver'.
C2_TickOutcome ==
    [][(gameState = "playing" /\ TickStep) =>
          /\ gameState' = "levelTransition" <=> (enemies' = << >> /\ ~AllDead(players'))
          /\ gameState' = "levelTransition" =>
                /\ level' = level + 1
                /\ levelTransitionTimer' = Ms(LEVEL_TRANSITION_TIME)
          /\ AllDead(players') => gameState' = "gameOver" /\ level' = level]_vars

\* C3: 'playing' is entered from 'levelTransition' only with the timer run
\* down to <= 0 and with the platforms and a non-empty roster of the level
\* in place, the level itself unchanged by that step.
C3_TransitionEnds ==
    [][(gameState = "levelTransition" /\ gameState' = "playing") =>
          /\ levelTransitionTimer' <= 0
          /\ level' = level
          /\ platforms' = LevelPlatforms(level)
          /\ Len(enemies') = EnemyCount(level)]_vars

\* C4: the game leaves 'paused' for 'playing' only by the callback of a
\* keydown of Enter received after the keydown that paused it: no callback
\* scheduled before that keydown is pending when the game resumes.
C4_ResumeNeedsLaterKeydown ==
    [][(gameState = "paused" /\ gameState' = "playing") => staleTimeouts = 0]_vars

-----------------------------------------------------------------------------
(* Lives and score (SpecMatch) *)

\* A tick of play that the model follows can be taken
Played == gameState = "playing" /\ PlayedLevel(level)

\* The inputs a tick can draw in the current state, and update() under one
TickInputs ==
    Inputs("full", players,
           UpdateEnemies(enemies, platforms, 1, Len(enemies), 100).enemies)

AfterTick(in) == UpdatePlaying(World, in)

\* The roster as the collision pass finds it
Updated(in) ==
    UpdateEnemies(enemies, platforms, 1, Len(enemies), in.jumpCooldown).enemies

\* Player i, not dead and with one life, overlaps unflipped enemies only,
\* and neither it nor a player before it flips an enemy in this tick
LastLifeTouch(i, in) ==
    /\ ~players[i].isDead
    /\ players[i].lives = 1
    /\ in.acts[i].touch # {}
    /\ \A j \in 1..i : ~in.acts[j].butt /\ ~in.acts[j].hitBlock
    /\ \A k \in 1..Len(Updated(in)) :
          Updated(in)[k].id \in in.acts[i].touch => ~Updated(in)[k].isFlipped

Others(i) == (1..Len(players)) \ {i}

C6_LivesNonNegative == \A i \in 1..Len(players) : players[i].lives >= 0

\* A player on its last life overlaps two unflipped enemies in one tick
C6_Witness ==
    /\ Played
    /\ \E in \in TickInputs : \E i \in 1..Len(players) :
          /\ LastLifeTouch(i, in)
          /\ Cardinality(in.acts[i].touch) >= 2
          /\ AfterTick(in).players[i].lives = 0

\* The sums of awards a roster of n enemies can give in one tick
AwardSums(n) == {HEADBUTT_POINTS * h + KILL_POINTS * k : h \in 0..n, k \in 0..n}

\* C7: no step lowers a player's score; a step changes it by the awards of
\* one tick, each of them +50 (head-butt) or +200 (flipped enemy touched).
C7_ScoreGrows ==
    [][/\ Len(players') = Len(players)
       /\ \A i \in 1..Len(players) :
             /\ players'[i].score >= players[i].score
             /\ players'[i].score - players[i].score \in AwardSums(Len(enemies))
             /\ \A points \in {HEADBUTT_POINTS, KILL_POINTS} :
                   AddScore(players[i], points).score = players[i].score + points]_vars

\* A player has been awarded a head-butt and a kill
C7_Witness ==
    \E i \in 1..Len(players) :
        players[i].score = EXTRA_LIFE_SCORE - 200 + HEADBUTT_POINTS + KILL_POINTS

\* C8: addScore grants at most one life, and one exactly when the new score
\* reaches nextExtraLifeScore, which then advances by EXTRA_LIFE_SCORE; so
\* score < nextExtraLifeScore always, and the lives granted so far, which is
\* nextExtraLifeScore / EXTRA_LIFE_SCORE - 1, are floor(score / EXTRA_LIFE_SCORE).
C8_ExtraLives ==
    \A i \in 1..Len(players) :
        LET p == players[i] IN
        /\ p.score < p.nextExtraLifeScore
        /\ p.nextExtraLifeScore = EXTRA_LIFE_SCORE * ((p.score \div EXTRA_LIFE_SCORE) + 1)
        /\ \A points \in {HEADBUTT_POINTS, KILL_POINTS} :
              LET q == AddScore(p, points)
                  reached == p.score + points >= p.nextExtraLifeScore
              IN /\ q.lives = p.lives + (IF reached THEN 1 ELSE 0)
                 /\ q.nextExtraLifeScore =
                       p.nextExtraLifeScore + (IF reached THEN EXTRA_LIFE_SCORE ELSE 0)

\* A player of level 1 has reached the first threshold exactly
C8_Witness ==
    /\ level = 1
    /\ \E i \in 1..Len(players) :
          /\ players[i].score = EXTRA_LIFE_SCORE
          /\ players[i].nextExtraLifeScore = 2 * EXTRA_LIFE_SCORE

-----------------------------------------------------------------------------
(* Flips *)

\* The enemy of the roster es with the identity id
ById(es, id) == es[CHOOSE k \in 1..Len(es) : es[k].id = id]

C10_FlipTwice ==
    \A k \in 1..Len(enemies) :
        LET e == enemies[k] IN
        /\ (e.kind # "bomber" /\ e.isFlipped) =>
              /\ Flip(e).isFlipped = e.isFlipped
              /\ Flip(e).flipTimer = e.flipTimer
              /\ Flip(e).vy = e.vy
        /\ e.kind \in {"basic", "fast", "jumping"} => Flip(Flip(e)) = Flip(e)
        /\ e.kind = "bomber" =>
              /\ Flip(e).timer = Min(e.timer, Ms(BOMBER_FLIP_CAP))
              /\ Flip(Flip(e)) = Flip(e)

\* The block has just been struck with an enemy flipped before that tick
C10_Witness ==
    /\ explosiveBlock.cooldown = Ms(BLOCK_COOLDOWN)
    /\ \E k \in 1..Len(enemies) :
          /\ enemies[k].kind = "tough"
          /\ enemies[k].isFlipped
          /\ enemies[k].flipTimer < Ms(FLIP_DURATION)

\* A flip trigger has reached the tough enemy e in the tick that made it f
Triggered(e, f) == f.hitsLeft < e.hitsLeft

\* C11: a ToughEnemy goes from unflipped to flipped only by the second of
\* two triggers received while unflipped: a tick's trigger flips it only if
\* an earlier one has left it damaged since it was last flipped, and the
\* first trigger leaves it unflipped with hitAnimationTimer = 300.
C11_TwoTriggers ==
    [][(gameState = "playing" /\ TickStep) =>
          \A id \in Ids(enemies) \cap Ids(enemies') :
             LET e == ById(enemies, id)
                 f == ById(enemies', id)
             IN (e.kind = "tough" /\ ~e.isFlipped /\ Triggered(e, f)) =>
                   IF e.hitsLeft = 1
                   THEN f.isFlipped
                   ELSE /\ ~f.isFlipped
                        /\ f.hitAnimationTimer = Ms(HIT_ANIMATION_TIME)
                        /\ f.hitsLeft = 1]_vars

-----------------------------------------------------------------------------
(* The explosive block *)

\* The world as the collision pass of this tick finds it
BeforePass == UpdateEntities(World, 100)

\* C12 as stated: a successful hit takes one use and leaves every enemy of
\* the roster flipped.
C12_AsStated ==
    (Played /\ CanHit(BeforePass.explosiveBlock)) =>
        LET w == HitBlock(BeforePass) IN
        /\ w.explosiveBlock.usesLeft = BeforePass.explosiveBlock.usesLeft - 1
        /\ \A k \in 1..Len(w.enemies) : w.enemies[k].isFlipped

\* C12: a successful hit takes exactly one use and calls flip() on every
\* enemy of the roster: it leaves every Basic, Fast and Jumping enemy
\* flipped, a ToughEnemy flipped if it was flipped or damaged before and
\* damaged otherwise, and an IceBomber unflipped with its timer at most 100.
C12_HitFlips ==
    (Played /\ CanHit(BeforePass.explosiveBlock)) =>
        LET w == HitBlock(BeforePass) IN
        /\ w.explosiveBlock.usesLeft = BeforePass.explosiveBlock.usesLeft - 1
        /\ Len(w.enemies) = Len(BeforePass.enemies)
        /\ \A k \in 1..Len(w.enemies) :
              LET e == BeforePass.enemies[k]
                  f == w.enemies[k]
              IN CASE e.kind = "bomber" ->
                        ~f.isFlipped /\ f.timer = Min(e.timer, Ms(BOMBER_FLIP_CAP))
                   [] e.kind = "tough" ->
                        /\ f.isFlipped <=> (e.isFlipped \/ e.hitsLeft <= 1)
                        /\ ~f.isFlipped => f.hitAnimationTimer = Ms(HIT_ANIMATION_TIME)
                   [] OTHER -> f.isFlipped

\* The block has just been struck and has left a ToughEnemy damaged beside
\* a flipped enemy
C12_Witness ==
    /\ explosiveBlock.cooldown = Ms(BLOCK_COOLDOWN)
    /\ \E k \in 1..Len(enemies) :
          /\ enemies[k].kind = "tough"
          /\ ~enemies[k].isFlipped
          /\ enemies[k].hitAnimationTimer = Ms(HIT_ANIMATION_TIME)
    /\ \E k \in 1..Len(enemies) :
          enemies[k].kind = "fast" /\ enemies[k].isFlipped

\* The double that the expression with nominal value v (in 1/PxScale px) yields
Exact(v) == RoundErr(Thirds(v), 0)

\* C13: 0 <= usesLeft <= EXPLOSIVE_BLOCK_USES, the block's height is
\* initialHeight * usesLeft / EXPLOSIVE_BLOCK_USES and y + height is the
\* bottom edge it was constructed with; once usesLeft is 0 a hit changes
\* nothing; and no step but a reset raises the height.
C13_BlockShape ==
    /\ [](LET b == explosiveBlock IN
          /\ 0 <= b.usesLeft /\ b.usesLeft <= EXPLOSIVE_BLOCK_USES
          /\ b.height = (b.initialHeight * b.usesLeft) \div EXPLOSIVE_BLOCK_USES
          /\ b.heightErr = Exact(b.height)
          /\ b.y + b.height = Px(BLOCK_Y + BLOCK_HEIGHT)
          /\ RoundErr(Thirds(b.y + b.height), b.yErr + b.heightErr) = 0
          /\ (Played /\ b.usesLeft = 0) => HitBlock(BeforePass) = BeforePass)
    /\ [][\/ explosiveBlock'.height < explosiveBlock.height
          \/ /\ explosiveBlock'.height = explosiveBlock.height
             /\ explosiveBlock'.heightErr = explosiveBlock.heightErr
          \/ explosiveBlock'.usesLeft = EXPLOSIVE_BLOCK_USES]_vars

\* usesLeft, height and y of the block b are those of a constructed block
AsConstructed(b) ==
    /\ b.usesLeft = ExplosiveBlock.usesLeft
    /\ b.height = ExplosiveBlock.height /\ b.heightErr = ExplosiveBlock.heightErr
    /\ b.y = ExplosiveBlock.y /\ b.yErr = ExplosiveBlock.yErr

\* C14: reset() of the block, after any number of hits, restores usesLeft,
\* height and y to their values at construction, and the tick that starts
\* a level, which calls setupLevel, leaves the block so.
C14_ResetRestores ==
    /\ [](AsConstructed(BlockReset(explosiveBlock)))
    /\ [][(gameState = "levelTransition" /\ gameState' = "playing") =>
             AsConstructed(explosiveBlock')]_vars

\* A level has started with the block restored after hits
C14_Witness ==
    /\ gameState = "playing"
    /\ level = LateLevel + 1
    /\ AsConstructed(explosiveBlock)


-----------------------------------------------------------------------------
(* The mobile platforms (SpecPlatform) *)

Mobile(p) == p.range > 0

\* C16: every platform made mobile stays within startX <= x <= startX + range
\* after any number of updates, and its vx changes sign exactly in the
\* updates that bring it to (or past) one of the two bounds.
C16_WithinRange ==
    /\ [](\A k \in 1..Len(platforms) :
             Mobile(platforms[k]) =>
                /\ platforms[k].startX <= platforms[k].x
                /\ platforms[k].x <= platforms[k].startX + platforms[k].range)
    /\ [][\A k \in 1..Len(platforms) :
             Mobile(platforms[k]) =>
                ((platforms'[k].vx = -platforms[k].vx)
                   <=> (\/ platforms'[k].x <= platforms[k].startX
                        \/ platforms'[k].x >= platforms[k].startX + platforms[k].range))]_vars

-----------------------------------------------------------------------------
(* setupLevel (SpecSetup) *)

Bombers(es) == {k \in 1..Len(es) : es[k].kind = "bomber"}

\* C19: after setupLevel(n) every IceBomber of the roster guards a platform
\* of the current list that is not the floor and has vx = 0, no two bombers
\* guard the same platform, there are bombers only when min(n, 50) >= 20,
\* the roster has 2 + floor(min(n, 50) / 2) enemies, and an enemy drawn as
\* a bomber when no platform qualifies is a BasicEnemy.
C19_Roster ==
    /\ gameState = "playing" =>
          /\ \A k \in Bombers(enemies) :
                /\ enemies[k].platform \in 1..Len(platforms)
                /\ ~platforms[enemies[k].platform].isFloor
                /\ platforms[enemies[k].platform].vx = 0
          /\ \A j, k \in Bombers(enemies) :
                enemies[j].platform = enemies[k].platform => j = k
          /\ Bombers(enemies) # {} => Min(level, 50) >= 20
          /\ Len(enemies) = 2 + (Min(level, 50) \div 2)
    /\ gameState = "levelTransition" =>
          \A plan \in SetupPlans :
             LET s == SetupLevel(level, explosiveBlock, plan) IN
             \A i \in 1..Len(s.enemies) :
                (/\ Min(level, 50) >= 20
                 /\ Draw(plan, i) < 30
                 /\ ~(Min(level, 50) >= 25 /\ Draw(plan, i) < 15)
                 /\ \A q \in 1..Len(s.platforms) :
                       (~s.platforms[q].isFloor /\ s.platforms[q].vx = 0) =>
                          \E j \in 1..(i - 1) :
                             s.enemies[j].kind = "bomber" /\ s.enemies[j].platform = q)
                   => s.enemies[i].kind = "basic"

\* A roster of a level of the layout with one static platform: its one
\* bomber, and BasicEnemies in the places of the other bombers drawn
C19_Witness ==
    /\ gameState = "playing"
    /\ level = 29
    /\ Cardinality(Bombers(enemies)) = 1
    /\ \A k \in 1..Len(enemies) : enemies[k].kind \in {"bomber", "basic"}
    /\ Len(enemies) = 16

-----------------------------------------------------------------------------
(* The high score (Spec) *)

\* C20: highScore is at least every player's score in every reachable
\* state, it never decreases, also from one match to the next, and a step
\* that raises it leaves the persisted value equal to it.
C20_HighScore ==
    /\ [](\A i \in 1..Len(players) : players[i].score <= highScore)
    /\ [][/\ highScore' >= highScore
          /\ highScore' > highScore => storedHighScore' = highScore']_vars

\* A later match, begun at score 0, under the high score that an earlier
\* match has raised from nothing
C20_Witness ==
    /\ gameState = "playing"
    /\ \A i \in 1..Len(players) : players[i].score = 0
    /\ highScore > 0
    /\ highScore < StoredHighScore
    /\ storedHighScore = highScore

-----------------------------------------------------------------------------
(* The frame of a tick, and the particles (SpecParticles) *)

\* The particles of ps one tick older, those that have run out removed
Older(ps, qs) ==
    /\ DOMAIN qs \subseteq 1..(PARTICLE_LIFE - 1)
    /\ \A l \in 1..(PARTICLE_LIFE - 1) : Count(qs, l) = Count(ps, l + 1)

\* C18: a tick in 'paused', 'gameOver' or 'playerSelect' leaves the
\* players, the enemies, the platforms, the block, level and
\* levelTransitionTimer as they are, and a tick in 'levelTransition' that
\* does not end the transition changes levelTransitionTimer only; in these
\* states the particles after the tick are the particles before it, one
\* tick older, without those whose life has run out.  In every state every
\* particle has between 1 and 99 ticks left and each step that changes the
\* particles leaves those that were there one tick older, so that a
\* particle is removed by the 100th tick from its creation.
C18_TickFrame ==
    /\ [](gameState \in {"paused", "gameOver", "playerSelect"} =>
            \A plan \in Plans :
               LET w == Update(World, NoInput, plan) IN
               /\ [w EXCEPT !.particles = particles] = World
               /\ Older(particles, w.particles))
    /\ [](gameState = "levelTransition" /\ levelTransitionTimer - FrameDelta > 0 =>
            \A plan \in Plans :
               LET w == Update(World, NoInput, plan) IN
               /\ [w EXCEPT !.particles = particles,
                            !.levelTransitionTimer = levelTransitionTimer] = World
               /\ w.levelTransitionTimer = levelTransitionTimer - FrameDelta
               /\ Older(particles, w.particles))
    /\ [](DOMAIN particles \subseteq 1..(PARTICLE_LIFE - 1))
    /\ [][particles' # particles =>
             \A l \in 1..(PARTICLE_LIFE - 2) :
                Count(particles', l) = Count(particles, l + 1)]_vars

\* The match is over and the particles of the last death are on their last tick
C18_Witness ==
    /\ gameState = "gameOver"
    /\ DOMAIN particles = {1}
    /\ particles[1] = DIE_PARTICLES

-----------------------------------------------------------------------------
(* The IceBomber (SpecBomber) *)

InRoster(id) == Played /\ \E k \in 1..Len(enemies) : enemies[k].id = id

\* C15: while the game keeps ticking in 'playing' every IceBomber of the
\* roster leaves it in the end.  It leaves it by its detonation only, in
\* the update that finds its timer run out: no overlap with a player takes
\* it from the roster.  An update of the bomber takes 1000/60 from its
\* timer (the bomber that follows a detonating one in the roster is not
\* updated in that tick), a flip trigger leaves min(timer, 100) and never
\* more, and 100 ms are over after 6 updates.  The detonation leaves the guarded platform
\* with isFrozen = true and frozenTimer = 7000 and adds exactly 40 particles.
C15_Detonation ==
    /\ \A id \in 1..2 : InRoster(id) ~> ~InRoster(id)
    /\ Ms(BOMBER_FLIP_CAP) <= 6 * FrameDelta
    /\ [](Played =>
            \A in \in TickInputs :
               LET before == UpdateEntities(World, in.jumpCooldown)
                   exploded == Ids(enemies) \ Ids(before.enemies)
               IN /\ Ids(AfterTick(in).enemies) = Ids(before.enemies)
                  /\ \A id \in Ids(before.enemies) :
                        LET e == ById(before.enemies, id)
                            f == ById(AfterTick(in).enemies, id)
                        IN /\ ~f.isFlipped
                           /\ f.timer \in {e.timer, Min(e.timer, Ms(BOMBER_FLIP_CAP))}
                           /\ \/ e.timer = ById(enemies, id).timer - FrameDelta
                              \/ /\ e.timer = ById(enemies, id).timer
                                 /\ \E k \in 1..(Len(enemies) - 1) :
                                       /\ enemies[k].id \in exploded
                                       /\ enemies[k + 1].id = id
                           /\ e.timer > 0
                  /\ \A id \in exploded :
                        LET e == ById(enemies, id)
                            p == UpdateEnemies(enemies, platforms, 1, Len(enemies),
                                               in.jumpCooldown).platforms[e.platform]
                        IN /\ e.timer - FrameDelta <= 0
                           /\ p.isFrozen
                           /\ p.frozenTimer = Ms(FROZEN_TIME)
                  /\ \A l \in 1..PARTICLE_LIFE :
                        Count(before.particles, l) =
                           Count(particles, l)
                             + (IF l = PARTICLE_LIFE
                                THEN EXPLODE_PARTICLES * Cardinality(exploded) ELSE 0))

\* The first bomber has gone off, and its platform is frozen, while the
\* second is still in the roster, a flip trigger having left it 100 ms
C15_Witness ==
    /\ gameState = "playing"
    /\ Ids(enemies) = {2}
    /\ platforms[2].isFrozen
    /\ ById(enemies, 2).timer = Ms(BOMBER_FLIP_CAP)

-----------------------------------------------------------------------------
(* The specification of the motion: one player and one enemy in level 1,    *)
(* the player's body followed from where it stands on the floor             *)

InitMotion ==
    /\ gameState = "playing"
    /\ level = 1
    /\ levelTransitionTimer = 0
    /\ players = <<PlayerAt(1, LIVES_START - 1, KILL_POINTS * (EnemyCount(1) - 1))>>
    /\ playerSelectOption = 1
    /\ enemies = <<Grounded(Enemy(2, "basic", 0))>>
    /\ platforms = LevelPlatforms(1)
    /\ explosiveBlock = ExplosiveBlock
    /\ keys = [enter |-> FALSE]
    /\ highScore = MaxOfScores(players)
    /\ storedHighScore = highScore
    /\ particles = NoParticles
    /\ bodies = <<Standing>>
    /\ timeouts = 0
    /\ staleTimeouts = 0

MotionTick ==
    /\ gameState = "playing" => FlipsAreYoung
    /\ Tick("motion")

JumpKey == KeyDown("w")

NextMotion == MotionTick \/ JumpKey

SpecMotion == InitMotion /\ [][NextMotion]_vars

\* Player i was respawned by die() in the tick that made w of the state
Respawned(w, i) == Respawns(players[i]) /\ w.players[i].lives < players[i].lives

\* Player i of w stands at the top edge of a platform or of the block that
\* it overlaps horizontally
Supported(w, i, over) ==
    \/ \E k \in over.plats : w.platforms[k].y = w.bodies[i].y + Px(PLAYER_HEIGHT)
    \/ over.block /\ w.explosiveBlock.y = w.bodies[i].y + Px(PLAYER_HEIGHT)

PlayersRest(w, in) ==
    \A i \in 1..Len(w.players) :
        ~w.players[i].isDead /\ w.bodies[i].onGround =>
            /\ w.bodies[i].vy = 0
            /\ Supported(w, i, IF Respawned(w, i) THEN RespawnOver(w.platforms)
                               ELSE in.over[i])

EnemiesRest(es) ==
    \A k \in 1..Len(es) : es[k].onGround => es[k].vy = 0 /\ es[k].alt = 0

\* C17: at the end of every collision pass every living player with
\* onGround = true has vy = 0 and stands at the top edge of a platform or
\* of the block that it overlaps horizontally, also in the tick in which
\* it lost a life and was respawned; and at the end of Enemy.update every
\* enemy with onGround = true has vy = 0 and stands on a platform's top
C17_AtRest ==
    gameState = "playing" /\ bodies # NoBodies =>
        \A in \in MotionInputs(players,
                               UpdateEnemies(enemies, platforms, 1, Len(enemies), 100).enemies,
                               platforms) :
            /\ PlayersRest(UpdatePlaying(World, in), in)
            /\ EnemiesRest(UpdateEnemies(enemies, platforms, 1, Len(enemies),
                                         in.jumpCooldown).enemies)

-----------------------------------------------------------------------------
\* C21: in every tick that starts in 'playing', every enemy that is in the
\* roster when the collision pass starts has had its update() executed
\* exactly once in the tick, also when an IceBomber detonates and removes
\* itself from the roster during the enemy update loop.
C21_UpdatedOnce ==
    Played =>
        \A in \in TickInputs : \A id \in Ids(Updated(in)) :
            ById(Updated(in), id) = EnemyUpdate(ById(enemies, id), in.jumpCooldown)


-----------------------------------------------------------------------------
(* Player vs enemies *)

IndexOf(es, id) == CHOOSE k \in 1..Len(es) : es[k].id = id

\* The player-vs-enemy part as C22 states it: every enemy of the roster,
\* taken in the order ids of the roster when the part starts, is tested
\* once; an overlapping flipped enemy is removed with +200 and 20
\* particles, an overlapping unflipped one triggers die()
RECURSIVE TouchEach(_, _, _, _, _, _, _)
TouchEach(w, i, ids, j, touch, atRespawn, respawned) ==
    IF j > Len(ids) THEN w
    ELSE LET enemy == ById(w.enemies, ids[j])
             overlaps == IF respawned THEN ids[j] \in atRespawn ELSE ids[j] \in touch
         IN IF ~overlaps
            THEN TouchEach(w, i, ids, j + 1, touch, atRespawn, respawned)
            ELSE IF enemy.isFlipped
            THEN TouchEach(Award([w EXCEPT !.enemies = RemoveAt(w.enemies,
                                                                IndexOf(w.enemies, ids[j])),
                                           !.particles = Burst(w.particles, KILL_PARTICLES)],
                                 i, KILL_POINTS),
                           i, ids, j + 1, touch, atRespawn, respawned)
            ELSE TouchEach(Kill(w, i), i, ids, j + 1, touch, atRespawn,
                           respawned \/ Respawns(w.players[i]))

\* C22: in the player-vs-enemy part of a collision pass, for each non-dead
\* player every enemy of the roster is tested in roster order exactly once:
\* each overlapping flipped enemy is removed with +200 and 20 particles and
\* each overlapping unflipped enemy triggers die(); no enemy is skipped
\* because an earlier one was removed in the same pass.
C22_EveryEnemyTested ==
    Played =>
        \A in \in TickInputs : \A i \in 1..Len(players) :
            ~players[i].isDead =>
                TouchEnemies(BeforePass, i, 1, Len(BeforePass.enemies),
                             in.acts[i].touch, in.atRespawn, FALSE)
                  = TouchEach(BeforePass, i,
                              [k \in 1..Len(BeforePass.enemies) |-> BeforePass.enemies[k].id],
                              1, in.acts[i].touch, in.atRespawn, FALSE)


\* Player i, on its last life, is the only player to meet anything in the
\* tick, and the first enemy of the roster that it overlaps is unflipped:
\* die() makes it dead there
DiesFirst(i, in) ==
    /\ ~players[i].isDead
    /\ players[i].lives = 1
    /\ in.acts[i].touch # {}
    /\ \A j \in 1..Len(players) : ~in.acts[j].butt /\ ~in.acts[j].hitBlock
    /\ \A j \in Others(i) : in.acts[j].touch = {}
    /\ LET first == CHOOSE k \in 1..Len(Updated(in)) :
                       /\ Updated(in)[k].id \in in.acts[i].touch
                       /\ \A m \in 1..(k - 1) : Updated(in)[m].id \notin in.acts[i].touch
       IN ~Updated(in)[first].isFlipped

\* C23: once a player is dead its lives stay 0 and its score, position and
\* velocity do not change until the next startGame; a dead player takes
\* part in no further collision, scoring or extra-life award, also in the
\* remainder of the collision pass in which it died: the pass in which it
\* dies at the first enemy it overlaps leaves its score and the roster as
\* they were.
C23_DeadStaysOut ==
    /\ [][gameState # "playerSelect" =>
             \A i \in 1..Len(players) :
                players[i].isDead =>
                   /\ players[i].lives = 0
                   /\ players'[i] = players[i]
                   /\ bodies # NoBodies => bodies'[i] = bodies[i]]_vars
    /\ [](Played =>
            \A in \in TickInputs : \A i \in 1..Len(players) :
               DiesFirst(i, in) =>
                  /\ AfterTick(in).players[i].isDead
                  /\ AfterTick(in).players[i].lives = 0
                  /\ AfterTick(in).players[i].score = players[i].score
                  /\ AfterTick(in).enemies = Updated(in))


\* The enemy e, over a surface that the respawn position overlaps
\* horizontally, overlaps the respawn position vertically (:709, :159)
AtRespawnHeight(e, plats) ==
    \E k \in RespawnOver(plats).plats :
        /\ Px(GAME_HEIGHT - PLAYER_HEIGHT - 100) < plats[k].y - e.alt
        /\ Px(GAME_HEIGHT - 100) > plats[k].y - e.alt - EnemyHeight(e.kind)

\* C24: a player loses at most one life per tick: in one collision pass
\* die() takes effect at most once per player, also when the player overlaps
\* several unflipped enemies or overlaps another enemy at the respawn
\* position that die() moves it to (an enemy in the air at its height).
C24_OneLifePerTick ==
    Played =>
        \A in \in TickInputs :
            (\A id \in in.atRespawn : AtRespawnHeight(ById(Updated(in), id), platforms)) =>
                \A i \in 1..Len(players) :
                    AfterTick(in).players[i].lives >= players[i].lives - 1


-----------------------------------------------------------------------------
(* The cooldown of the explosive block *)

\* The cooldown at the start of the 1st .. n-th playing tick after a
\* successful hit() (:475, :469)
TicksAfterHit(n) == {Ms(BLOCK_COOLDOWN) - (j - 1) * FrameDelta : j \in 1..n}

\* A hit() attempted in the collision pass of this tick changes neither
\* usesLeft, height, y nor any enemy
HitChangesNothing ==
    /\ HitBlock(BeforePass).explosiveBlock = BeforePass.explosiveBlock
    /\ HitBlock(BeforePass).enemies = BeforePass.enemies

\* C25 as stated: every hit() attempted during the next 30 playing ticks
\* after a successful one changes nothing.
C25_AsStated ==
    (Played /\ explosiveBlock.cooldown \in TicksAfterHit(30)) => HitChangesNothing

\* C25: the cooldown is one of 500 - j * 1000/60 >= 0; every hit() attempted
\* during the next 29 playing ticks after a successful one changes neither
\* usesLeft, height, y nor any enemy, and the one attempted in the 30th
\* succeeds if a use is left; two players striking the block in the same
\* tick consume exactly one use; the cooldown changes only in the ticks of
\* 'playing'.
C25_Cooldown ==
    /\ [](explosiveBlock.cooldown \in TicksAfterHit(30) \cup {0})
    /\ []((Played /\ explosiveBlock.cooldown \in TicksAfterHit(29)) => HitChangesNothing)
    /\ []((Played /\ explosiveBlock.cooldown = FrameDelta /\ explosiveBlock.usesLeft > 0) =>
            HitBlock(BeforePass).explosiveBlock.usesLeft = explosiveBlock.usesLeft - 1)
    /\ [](Played =>
            \A in \in TickInputs :
               (/\ Len(players) = 2
                /\ \A i \in 1..2 : ~players[i].isDead /\ in.acts[i].hitBlock
                /\ CanHit(BeforePass.explosiveBlock)) =>
                  AfterTick(in).explosiveBlock.usesLeft = explosiveBlock.usesLeft - 1)
    /\ [][explosiveBlock'.cooldown # explosiveBlock.cooldown =>
             gameState = "playing" /\ TickStep]_vars

\* The 29th playing tick after a successful hit starts, with a use left
C25_Witness ==
    /\ Played
    /\ explosiveBlock.cooldown = 2 * FrameDelta
    /\ explosiveBlock.usesLeft > 0

=============================================================================
